---- MODULE Spec2Model ----
(***************************************************************************)
(* Model of netmock's CheckedMockStream (src/src/stream/mod.rs): a stream  *)
(* that plays a fixed script of Read / ReadError / Write / WriteError /    *)
(* Wait actions against blocking read and write calls.                     *)
(*                                                                         *)
(* Indices are 0-based as in the Rust code: the current action is          *)
(* actions[action + 1] in TLA+'s 1-based sequences.                        *)
(***************************************************************************)
EXTENDS Integers, Sequences, FiniteSets, TLC

VARIABLES
    actions,    \* CheckedMockStream.actions : Vec<Action>, fixed once built
    written,    \* CheckedMockStream.written : Vec<u8>
    action,     \* CheckedMockStream.action  : usize
    pos,        \* CheckedMockStream.pos     : usize
    last,       \* history: the last call, its arguments, its result and the state it started from
    surfaced,   \* history: indices of the error actions surfaced since the cursor last moved back over them
    delivered,  \* history (SpecRead): the bytes returned by all read calls so far, in call order
    pass,       \* history (SpecReplay): 1 = first pass, 2 = replaying after reset_actions()
    trace,      \* history (SpecReplay): the calls of the first pass with their results
    replayed,   \* history (SpecReplay): the results of the calls reissued in the second pass
    written1,   \* history (SpecReplay): `written` at the end of the first pass
    sleep,      \* CheckedMockStream.sleep   : Option<Pin<Box<Sleep>>> (feature "tokio")
    polled,     \* history: what the last poll_read / poll_write found and did about the timer
    req,        \* history: the request being polled to completion (SpecModes)
    twin,       \* a second stream, given the same calls as the first (SpecModes, SpecSeek, SpecSeekPoll)
    twinout,    \* history: what the last call on the second stream returned
    phase       \* history (SpecSeek, SpecSeekPoll): 1 = before the seek, 2 = after it

vars ==
    <<actions, written, action, pos, last, surfaced, delivered, pass, trace, replayed, written1,
      sleep, polled, req, twin, twinout, phase>>

----------------------------------------------------------------------------
(* Bounds of the model *)

MaxActions == 2       \* longest generated script (Spec, SpecReplay)
MaxPayload == 2       \* longest payload of a generated Read / Write action
MaxWritten == 2       \* cap on len(written) in Spec (rewinding lets it grow for ever)
MaxReadActions == 3   \* longest generated script of SpecRead
MaxCalls == 2         \* calls per pass in SpecReplay
MaxSeekActions == 3   \* longest generated script of SpecSeek
MaxModeActions == 3   \* longest generated script of SpecModes
MaxPollActions == 2   \* longest generated script of SpecPoll

----------------------------------------------------------------------------
(* Input universe *)

\* std::cmp::min
Min(a, b) == IF a < b THEN a ELSE b

BoundedSeq(S, n) == UNION {[1..k -> S] : k \in 0..n}

\* Bytes used in generated payloads and buffers: b'A', b'B'
Bytes == {65, 66}

\* the first n bytes of "ABAB..."
Word(n) == [i \in 1..n |-> IF i % 2 = 1 THEN 65 ELSE 66]

Payloads == {Word(n) : n \in 0..MaxPayload}

NoError == [kind |-> "None", msg |-> ""]

\* the only error the engine itself originates
Mismatch == [kind |-> "InvalidInput", msg |-> "mismatch written data"]

\* io::Error values the scripts embed, all built by Error::new(kind, message), whose
\* to_string() is the message: Error::new(err.kind(), err.to_string()) is then a new
\* error of the same kind and message
ErrRead == [kind |-> "Other", msg |-> "read"]
ErrWrite == [kind |-> "Other", msg |-> "write"]
ErrTimedOut == [kind |-> "TimedOut", msg |-> "timed out"]

\* Duration values of the generated Wait actions
Durations == {1, 2}

\* enum Action
ARead(b) == [type |-> "Read", data |-> b, err |-> NoError, wait |-> 0]
AReadError(e) == [type |-> "ReadError", data |-> <<>>, err |-> e, wait |-> 0]
AWrite(b) == [type |-> "Write", data |-> b, err |-> NoError, wait |-> 0]
AWriteError(e) == [type |-> "WriteError", data |-> <<>>, err |-> e, wait |-> 0]
AWait(d) == [type |-> "Wait", data |-> <<>>, err |-> NoError, wait |-> d]

ActionSet ==
    {ARead(b) : b \in Payloads} \cup {AWrite(b) : b \in Payloads}
    \cup {AReadError(ErrRead), AWriteError(ErrTimedOut)}
    \cup {AWait(d) : d \in Durations}

\* every script the builder can produce from ActionSet, up to MaxActions actions
Scripts == BoundedSeq(ActionSet, MaxActions)

\* buf.len() of the destination of a read
ReadSizes == 0..MaxPayload

\* the source buffer of a write: the payloads, the payloads with one more byte, b"ABC"
BytesABC == <<65, 66, 67>>
WriteBufs == Payloads \cup {p \o <<b>> : p \in Payloads, b \in Bytes} \cup {BytesABC}

\* scripts of Read and Wait actions only (SpecRead)
ReadScripts ==
    BoundedSeq({ARead(b) : b \in Payloads} \cup {AWait(d) : d \in Durations}, MaxReadActions)

\* scripts of SpecSeek: one action of each kind
SeekActionSet ==
    {ARead(Word(MaxPayload)), AWrite(Word(MaxPayload)), AReadError(ErrRead),
     AWriteError(ErrTimedOut), AWait(1)}
SeekScripts == BoundedSeq(SeekActionSet, MaxSeekActions)

\* buffers of SpecSeek: a read into an empty buffer, of one byte and of a whole payload;
\* a write of nothing, of the expected bytes, of one byte more, and of one byte
SeekReadSizes == {0, 1, MaxPayload}
SeekWriteBufs == {<<>>, Word(MaxPayload), Word(MaxPayload + 1), Word(1)}

\* scripts of SpecPoll: one action of each kind and a Wait of each duration
PollActionSet == SeekActionSet \cup {AWait(d) : d \in Durations}
PollScripts == BoundedSeq(PollActionSet, MaxPollActions)

\* scripts of SpecModes
ModeScripts == BoundedSeq(PollActionSet, MaxModeActions)

\* inputs of SpecReplay
ReplayReadSizes == {1, MaxPayload}
ReplayWriteBufs == {Word(1), Word(MaxPayload), <<66>>, Word(MaxPayload) \o <<65>>}

----------------------------------------------------------------------------
(* The scripts and buffers of the repository's tests and of the documented scenarios *)

BytesHi == <<72, 105, 10>>                \* b"Hi\n"
BytesAck == <<65, 99, 107, 10>>           \* b"Ack\n"
BytesFirstSecond == <<70, 105, 114, 115, 116, 10, 83, 101, 99, 111, 110, 100, 10>>   \* b"First\nSecond\n"
BytesThird == <<84, 104, 105, 114, 100, 10>>      \* b"Third\n"
BytesSuccess == <<83, 117, 99, 99, 101, 115, 115, 10>>  \* b"Success\n"
BytesMissmatch == <<77, 105, 115, 115, 109, 97, 116, 99, 104>>   \* b"Missmatch"
BytesError == <<69, 114, 114, 111, 114, 10>>   \* b"Error\n"
BytesZero == <<48, 10>>   \* b"0\n"

\* Duration::from_millis(100)
TestWait == 100

\* CheckedMockStreamBuilder::new().read(b"Hi\n").write(b"Ack\n")
ScriptHiAck == <<ARead(BytesHi), AWrite(BytesAck)>>

\* CheckedMockStreamBuilder::new().write(b"AB")
ScriptAB == <<AWrite(Word(2))>>

\* the script of the test checked_mockstream_error
ScriptError ==
    <<ARead(BytesFirstSecond), AWait(TestWait), AWriteError(ErrWrite), AWrite(BytesSuccess),
      AReadError(ErrRead), ARead(BytesThird)>>

TestScripts == {ScriptHiAck, ScriptAB, ScriptError}

\* buf.len() of the reads: the tests' 2 and 6, the scenario's 10, empty, and a large one
TestReadSizes == {0, 2, 6, 10, 32}

TestWriteBufs ==
    {<<>>, BytesAck, Word(1), Word(2), BytesABC, BytesSuccess, BytesMissmatch,
     BytesError, BytesZero}

----------------------------------------------------------------------------
(* The stream and the results of its calls *)

\* struct CheckedMockStream
Self ==
    [actions |-> actions, written |-> written, action |-> action, pos |-> pos, sleep |-> sleep]

\* sleep: None
NoSleep == [armed |-> FALSE, left |-> 0]

\* sleep: Some(Box::pin(sleep_until(Instant::now() + wait))), with the time left to its deadline
Armed(wait) == [armed |-> TRUE, left |-> wait]

\* CheckedMockStreamBuilder::build / build_cap: the stream as constructed
build(acts) ==
    [actions |-> acts, written |-> <<>>, action |-> 0, pos |-> 0, sleep |-> NoSleep]

\* io::Result<usize>, with the bytes a read copied to buf[..n] and the time the call slept
Ret(self, ok, n, err, data, slept) ==
    [self |-> self, ok |-> ok, n |-> n, err |-> err, data |-> data, slept |-> slept]

\* CheckedMockStreamBuilder::write's running total: the capacity build_cap preallocates
RECURSIVE writed(_)
writed(acts) ==
    IF acts = <<>> THEN 0
    ELSE (IF Head(acts).type = "Write" THEN Len(Head(acts).data) ELSE 0) + writed(Tail(acts))

----------------------------------------------------------------------------
(* impl CheckedMockStream: the control calls *)

\* faulty variant of reset_actions: the intra-action offset is not reset
reset_actions_keeps_pos(self) == [self EXCEPT !.action = 0]

\* pub fn reset_actions(&mut self)
reset_actions(self) == [self EXCEPT !.action = 0, !.pos = 0]

\* faulty variant of seek_action: the intra-action offset is not reset
seek_action_keeps_pos(self, k) == [self EXCEPT !.action = k]

\* pub fn seek_action(&mut self, action: usize)
seek_action(self, k) == [self EXCEPT !.action = k, !.pos = 0]

\* faulty variant of reset_written: the cursor is rewound as well
reset_written_rewinds(self) == [self EXCEPT !.written = <<>>, !.action = 0]

\* pub fn reset_written(&mut self)
reset_written(self) == [self EXCEPT !.written = <<>>]

\* pub fn reset(&mut self)
reset(self) == reset_written(reset_actions(self))

----------------------------------------------------------------------------
(* impl Read for CheckedMockStream *)

\* faulty variant of thread_sleep: the call does not sleep
thread_sleep_skipped(slept, wait) == slept

\* std::thread::sleep(*wait): the time the call has slept so far grows by wait
thread_sleep(slept, wait) == slept + wait

\* faulty variant of read_done: an empty buffer is not checked for
read_done_ignores_empty(self, len) == self.action >= Len(self.actions)

\* if self.action >= self.actions.len() || buf.len() == 0 { return Ok(0); }
read_done(self, len) == self.action >= Len(self.actions) \/ len = 0

\* faulty variant of read_error: the cursor moves two actions on
read_error_skips(self, err, slept) ==
    Ret([self EXCEPT !.action = @ + 2], FALSE, 0,
        [kind |-> err.kind, msg |-> err.msg], <<>>, slept)

\* faulty variant of read_error: the cursor stays on the error
read_error_stays(self, err, slept) ==
    Ret(self, FALSE, 0, [kind |-> err.kind, msg |-> err.msg], <<>>, slept)

\* Action::ReadError(err) => { self.action += 1; Err(Error::new(err.kind(), err.to_string())) }
read_error(self, err, slept) ==
    Ret([self EXCEPT !.action = @ + 1], FALSE, 0,
        [kind |-> err.kind, msg |-> err.msg], <<>>, slept)

\* faulty variant of read_data: the bytes are copied from the start of the payload
read_data_from_start(self, data, len, slept) ==
    LET n == Min(Len(data) - self.pos, len)
        end == n + self.pos
    IN  Ret(IF end = Len(data)
              THEN [self EXCEPT !.action = @ + 1, !.pos = 0]
              ELSE [self EXCEPT !.pos = end],
            TRUE, n, NoError, SubSeq(data, 1, n), slept)

\* faulty variant of read_data: the offset is not reset when the payload is exhausted
read_data_keeps_pos(self, data, len, slept) ==
    LET n == Min(Len(data) - self.pos, len)
        end == n + self.pos
    IN  Ret(IF end = Len(data)
              THEN [self EXCEPT !.action = @ + 1, !.pos = end]
              ELSE [self EXCEPT !.pos = end],
            TRUE, n, NoError, SubSeq(data, self.pos + 1, end), slept)

\* Action::Read(data) => { copy min(data.len() - pos, buf.len()) bytes; advance action or pos }
read_data(self, data, len, slept) ==
    LET n == Min(Len(data) - self.pos, len)
        end == n + self.pos
    IN  Ret(IF end = Len(data)
              THEN [self EXCEPT !.action = @ + 1, !.pos = 0]
              ELSE [self EXCEPT !.pos = end],
            TRUE, n, NoError, SubSeq(data, self.pos + 1, end), slept)

\* faulty variant of read_other: the action of the other direction is skipped
read_other_advances(self, slept) ==
    Ret([self EXCEPT !.action = @ + 1], TRUE, 0, NoError, <<>>, slept)

\* _ => Ok(0): a Write or WriteError is current
read_other(self, slept) == Ret(self, TRUE, 0, NoError, <<>>, slept)

\* fn read(&mut self, buf: &mut [u8]) -> io::Result<usize>, with len = buf.len();
\* slept accumulates the std::thread::sleep of the Wait arms the call recursed through
RECURSIVE read(_, _, _)
read(self, len, slept) ==
    IF read_done(self, len)
      THEN Ret(self, TRUE, 0, NoError, <<>>, slept)
      ELSE LET cur == self.actions[self.action + 1] IN
           CASE cur.type = "ReadError" -> read_error(self, cur.err, slept)
             [] cur.type = "Read" -> read_data(self, cur.data, len, slept)
             [] cur.type = "Wait" ->
                    read([self EXCEPT !.action = @ + 1], len, thread_sleep(slept, cur.wait))
             [] OTHER -> read_other(self, slept)

----------------------------------------------------------------------------
(* impl Write for CheckedMockStream *)

\* if self.action >= self.actions.len() || buf.len() == 0 { return Ok(0); }
write_done(self, buf) == self.action >= Len(self.actions) \/ Len(buf) = 0

\* Action::WriteError(err) => { self.action += 1; Err(Error::new(err.kind(), err.to_string())) }
write_error(self, err, slept) ==
    Ret([self EXCEPT !.action = @ + 1], FALSE, 0,
        [kind |-> err.kind, msg |-> err.msg], <<>>, slept)

\* faulty variant of write_data: a prefix match appends and reports the whole buffer
write_data_whole_buf(self, data, buf, slept) ==
    IF data = buf \/ (Len(data) < Len(buf) /\ data = SubSeq(buf, 1, Len(data)))
      THEN Ret([self EXCEPT !.written = @ \o buf, !.action = @ + 1],
               TRUE, Len(buf), NoError, <<>>, slept)
      ELSE Ret(self, FALSE, 0, Mismatch, <<>>, slept)

\* faulty variant of write_data: a mismatch moves the cursor on
write_data_mismatch_advances(self, data, buf, slept) ==
    IF data = buf \/ (Len(data) < Len(buf) /\ data = SubSeq(buf, 1, Len(data)))
      THEN Ret([self EXCEPT !.written = @ \o SubSeq(buf, 1, Len(data)), !.action = @ + 1],
               TRUE, Len(data), NoError, <<>>, slept)
      ELSE Ret([self EXCEPT !.action = @ + 1], FALSE, 0, Mismatch, <<>>, slept)

\* faulty variant of write_data: a strict prefix of the expected bytes is accepted
\* at its own length, the cursor staying on the action
write_data_partial(self, data, buf, slept) ==
    IF data = buf \/ (Len(data) < Len(buf) /\ data = SubSeq(buf, 1, Len(data)))
      THEN Ret([self EXCEPT !.written = @ \o SubSeq(buf, 1, Len(data)), !.action = @ + 1],
               TRUE, Len(data), NoError, <<>>, slept)
      ELSE IF Len(buf) < Len(data) /\ buf = SubSeq(data, 1, Len(buf))
        THEN Ret([self EXCEPT !.written = @ \o buf], TRUE, Len(buf), NoError, <<>>, slept)
        ELSE Ret(self, FALSE, 0, Mismatch, <<>>, slept)

\* faulty variant of write_data: a full match does not move the cursor on
write_data_no_advance(self, data, buf, slept) ==
    IF data = buf
      THEN Ret([self EXCEPT !.written = @ \o buf], TRUE, Len(buf), NoError, <<>>, slept)
      ELSE IF Len(data) < Len(buf) /\ data = SubSeq(buf, 1, Len(data))
        THEN Ret([self EXCEPT !.written = @ \o SubSeq(buf, 1, Len(data)), !.action = @ + 1],
                 TRUE, Len(data), NoError, <<>>, slept)
        ELSE Ret(self, FALSE, 0, Mismatch, <<>>, slept)

\* faulty variant of write_data: the bytes of a mismatching write are logged
write_data_logs_mismatch(self, data, buf, slept) ==
    IF data = buf \/ (Len(data) < Len(buf) /\ data = SubSeq(buf, 1, Len(data)))
      THEN Ret([self EXCEPT !.written = @ \o SubSeq(buf, 1, Len(data)), !.action = @ + 1],
               TRUE, Len(data), NoError, <<>>, slept)
      ELSE Ret([self EXCEPT !.written = @ \o buf], FALSE, 0, Mismatch, <<>>, slept)

\* faulty variant of write_data: a prefix match is logged but the cursor stays
write_data_prefix_stays(self, data, buf, slept) ==
    IF data = buf
      THEN Ret([self EXCEPT !.written = @ \o buf, !.action = @ + 1],
               TRUE, Len(buf), NoError, <<>>, slept)
      ELSE IF Len(data) < Len(buf) /\ data = SubSeq(buf, 1, Len(data))
        THEN Ret([self EXCEPT !.written = @ \o SubSeq(buf, 1, Len(data))],
                 TRUE, Len(data), NoError, <<>>, slept)
        ELSE Ret(self, FALSE, 0, Mismatch, <<>>, slept)

\* Action::Write(data): full match, prefix match or mismatch; Vec<u8>::write appends
\* the whole slice it is given and returns its length
write_data(self, data, buf, slept) ==
    IF data = buf
      THEN Ret([self EXCEPT !.written = @ \o buf, !.action = @ + 1],
               TRUE, Len(buf), NoError, <<>>, slept)
      ELSE IF Len(data) < Len(buf) /\ data = SubSeq(buf, 1, Len(data))
        THEN Ret([self EXCEPT !.written = @ \o SubSeq(buf, 1, Len(data)), !.action = @ + 1],
                 TRUE, Len(data), NoError, <<>>, slept)
        ELSE Ret(self, FALSE, 0, Mismatch, <<>>, slept)

\* faulty variant of write_other: the action of the other direction is skipped
write_other_advances(self, slept) ==
    Ret([self EXCEPT !.action = @ + 1], TRUE, 0, NoError, <<>>, slept)

\* _ => Ok(0): a Read or ReadError is current
write_other(self, slept) == Ret(self, TRUE, 0, NoError, <<>>, slept)

\* fn write(&mut self, buf: &[u8]) -> io::Result<usize>
RECURSIVE write(_, _, _)
write(self, buf, slept) ==
    IF write_done(self, buf)
      THEN Ret(self, TRUE, 0, NoError, <<>>, slept)
      ELSE LET cur == self.actions[self.action + 1] IN
           CASE cur.type = "WriteError" -> write_error(self, cur.err, slept)
             [] cur.type = "Write" -> write_data(self, cur.data, buf, slept)
             [] cur.type = "Wait" ->
                    write([self EXCEPT !.action = @ + 1], buf, thread_sleep(slept, cur.wait))
             [] OTHER -> write_other(self, slept)

\* fn flush(&mut self) -> io::Result<()>: Vec<u8>::flush is Ok(()) and touches nothing
flush(self) == Ret(self, TRUE, 0, NoError, <<>>, 0)

----------------------------------------------------------------------------
(* impl AsyncRead / AsyncWrite for CheckedMockStream (feature "tokio") *)

\* Poll<io::Result<_>>: Poll::Ready(Ok / Err) or Poll::Pending, with the bytes a read put
\* into buf; armed: the call stored a new timer in self.sleep; woke: the call asked
\* for an immediate re-poll with cx.waker().wake_by_ref()
Polled(self, ready, ok, n, err, data, armed, woke) ==
    [self |-> self, ready |-> ready, ok |-> ok, n |-> n, err |-> err, data |-> data,
     slept |-> 0, armed |-> armed, woke |-> woke]

\* faulty variant of sleep_pending: a pending timer does not hold the call back
sleep_pending_ignored(self) == FALSE

\* if let Some(ref mut sleep) = self.sleep { ready!(Pin::new(sleep).poll(cx)); ... }:
\* TRUE iff ready! returns Poll::Pending, that is a timer is stored and its deadline
\* has not passed (Sleep::poll registers the waker with the timer)
sleep_pending(self) == self.sleep.armed /\ self.sleep.left > 0

\* ... self.sleep = None; }
sleep_cleared(self) == [self EXCEPT !.sleep = NoSleep]

\* Action::ReadError(err) => { result = Err(..) } ... self.action += 1; Poll::Ready(result)
poll_read_error(self, err) ==
    Polled([self EXCEPT !.action = @ + 1], TRUE, FALSE, 0,
           [kind |-> err.kind, msg |-> err.msg], <<>>, FALSE, FALSE)

\* Action::Read(data) => { buf.put_slice(&data[self.pos..end]); advance action or pos;
\* return Poll::Ready(Ok(())) }
poll_read_data(self, data, len) ==
    LET n == Min(Len(data) - self.pos, len)
        end == n + self.pos
    IN  Polled(IF end = Len(data)
                 THEN [self EXCEPT !.action = @ + 1, !.pos = 0]
                 ELSE [self EXCEPT !.pos = end],
               TRUE, TRUE, n, NoError, SubSeq(data, self.pos + 1, end), FALSE, FALSE)

\* faulty variant of poll_read_wait: the cursor stays on the Wait
poll_read_wait_stays(self, wait) ==
    Polled([self EXCEPT !.sleep = Armed(wait)], FALSE, TRUE, 0, NoError, <<>>, TRUE, TRUE)

\* Action::Wait(wait) => { self.sleep = Some(..); cx.waker().wake_by_ref();
\* self.action += 1; return Poll::Pending; }
poll_read_wait(self, wait) ==
    Polled([self EXCEPT !.sleep = Armed(wait), !.action = @ + 1],
           FALSE, TRUE, 0, NoError, <<>>, TRUE, TRUE)

\* _ => return Poll::Ready(Ok(())): a Write or WriteError is current
poll_read_other(self) == Polled(self, TRUE, TRUE, 0, NoError, <<>>, FALSE, FALSE)

\* fn poll_read(self: Pin<&mut Self>, cx, buf: &mut ReadBuf<'_>) -> Poll<io::Result<()>>,
\* with len = buf.remaining()
poll_read(self, len) ==
    IF sleep_pending(self)
      THEN Polled(self, FALSE, TRUE, 0, NoError, <<>>, FALSE, FALSE)
      ELSE LET s == sleep_cleared(self) IN
           IF s.action >= Len(s.actions) \/ len = 0
             THEN Polled(s, TRUE, TRUE, 0, NoError, <<>>, FALSE, FALSE)
             ELSE LET cur == s.actions[s.action + 1] IN
                  CASE cur.type = "ReadError" -> poll_read_error(s, cur.err)
                    [] cur.type = "Read" -> poll_read_data(s, cur.data, len)
                    [] cur.type = "Wait" -> poll_read_wait(s, cur.wait)
                    [] OTHER -> poll_read_other(s)

\* Action::WriteError(err) => { result = Err(..) } ... self.action += 1; Poll::Ready(result)
poll_write_error(self, err) ==
    Polled([self EXCEPT !.action = @ + 1], TRUE, FALSE, 0,
           [kind |-> err.kind, msg |-> err.msg], <<>>, FALSE, FALSE)

\* faulty variant of poll_write_data: a prefix match logs the whole buffer
poll_write_data_whole_buf(self, data, buf) ==
    IF data = buf \/ (Len(data) < Len(buf) /\ data = SubSeq(buf, 1, Len(data)))
      THEN Polled([self EXCEPT !.written = @ \o buf, !.action = @ + 1],
                  TRUE, TRUE, Len(data), NoError, <<>>, FALSE, FALSE)
      ELSE Polled(self, TRUE, FALSE, 0, Mismatch, <<>>, FALSE, FALSE)

\* Action::Write(data): len = buf.len() on a full match, data.len() on a prefix match,
\* else return Poll::Ready(Err(InvalidInput)); written.write_all(&buf[..len]);
\* result = Ok(len) ... self.action += 1; Poll::Ready(result)
poll_write_data(self, data, buf) ==
    IF data = buf
      THEN Polled([self EXCEPT !.written = @ \o SubSeq(buf, 1, Len(buf)), !.action = @ + 1],
                  TRUE, TRUE, Len(buf), NoError, <<>>, FALSE, FALSE)
      ELSE IF Len(data) < Len(buf) /\ data = SubSeq(buf, 1, Len(data))
        THEN Polled([self EXCEPT !.written = @ \o SubSeq(buf, 1, Len(data)), !.action = @ + 1],
                    TRUE, TRUE, Len(data), NoError, <<>>, FALSE, FALSE)
        ELSE Polled(self, TRUE, FALSE, 0, Mismatch, <<>>, FALSE, FALSE)

\* faulty variant of poll_write_wait: the cursor stays on the Wait
poll_write_wait_stays(self, wait) ==
    Polled([self EXCEPT !.sleep = Armed(wait)], FALSE, TRUE, 0, NoError, <<>>, TRUE, TRUE)

\* Action::Wait(wait) => { self.sleep = Some(..); cx.waker().wake_by_ref();
\* self.action += 1; return Poll::Pending; }
poll_write_wait(self, wait) ==
    Polled([self EXCEPT !.sleep = Armed(wait), !.action = @ + 1],
           FALSE, TRUE, 0, NoError, <<>>, TRUE, TRUE)

\* _ => return Poll::Ready(Ok(0)): a Read or ReadError is current
poll_write_other(self) == Polled(self, TRUE, TRUE, 0, NoError, <<>>, FALSE, FALSE)

\* fn poll_write(self: Pin<&mut Self>, cx, buf: &[u8]) -> Poll<io::Result<usize>>
poll_write(self, buf) ==
    IF sleep_pending(self)
      THEN Polled(self, FALSE, TRUE, 0, NoError, <<>>, FALSE, FALSE)
      ELSE LET s == sleep_cleared(self) IN
           IF s.action >= Len(s.actions) \/ Len(buf) = 0
             THEN Polled(s, TRUE, TRUE, 0, NoError, <<>>, FALSE, FALSE)
             ELSE LET cur == s.actions[s.action + 1] IN
                  CASE cur.type = "WriteError" -> poll_write_error(s, cur.err)
                    [] cur.type = "Write" -> poll_write_data(s, cur.data, buf)
                    [] cur.type = "Wait" -> poll_write_wait(s, cur.wait)
                    [] OTHER -> poll_write_other(s)

\* the timer of tokio::time: one unit of time passes for a stored, unexpired Sleep
tick(self) ==
    IF self.sleep.armed /\ self.sleep.left > 0
      THEN [self EXCEPT !.sleep.left = @ - 1]
      ELSE self

----------------------------------------------------------------------------
(* History variables *)

\* the state a call started from
Pre == [action |-> action, pos |-> pos, written |-> written]

\* a call that returns nothing
Unit == [ok |-> TRUE, n |-> 0, err |-> NoError, data |-> <<>>, slept |-> 0]

\* the record of a call: op, its arguments (len of a read, buf of a write, k of a seek),
\* what it returned and the state it started from
Call(op, len, buf, k, r) ==
    [op |-> op, len |-> len, buf |-> buf, k |-> k,
     ok |-> r.ok, n |-> r.n, err |-> r.err, data |-> r.data, slept |-> r.slept,
     pre |-> Pre]

\* what a call returned
Outcome(r) == [ok |-> r.ok, n |-> r.n, err |-> r.err, data |-> r.data]

\* no poll yet: nothing pending, nothing armed
NoPoll ==
    [ready |-> TRUE, armed |-> FALSE, woke |-> FALSE, sleep |-> NoSleep, after |-> NoSleep,
     by |-> "none", at |-> 0, was |-> 0]

\* no request yet
NoReq == [op |-> "none", len |-> 0, buf |-> <<>>, open |-> FALSE, arms |-> 0, waits |-> 0, from |-> 0]

\* no call on the second stream yet
NoOut == [ready |-> TRUE, ok |-> TRUE, n |-> 0, err |-> NoError, data |-> <<>>, slept |-> 0]

NoCall ==
    [op |-> "build", len |-> 0, buf |-> <<>>, k |-> 0,
     ok |-> TRUE, n |-> 0, err |-> NoError, data |-> <<>>, slept |-> 0,
     pre |-> [action |-> 0, pos |-> 0, written |-> <<>>]]

\* the first index at or after a whose action is not a Wait (Len(acts) if there is none)
RECURSIVE SkipWaits(_, _)
SkipWaits(acts, a) ==
    IF a < Len(acts) /\ acts[a + 1].type = "Wait" THEN SkipWaits(acts, a + 1) ELSE a

\* the sum of the durations of the actions at the 0-based indices a .. b - 1 of acts
RECURSIVE WaitSum(_, _, _)
WaitSum(acts, a, b) == IF a >= b THEN 0 ELSE acts[a + 1].wait + WaitSum(acts, a + 1, b)

\* TRUE iff the action at 0-based index i of acts has type t
IsAt(acts, i, t) == i < Len(acts) /\ acts[i + 1].type = t

\* the error action a failed call of direction t ("ReadError" / "WriteError") surfaced
Surfacing(t, r) ==
    LET i == SkipWaits(actions, action)
    IN  IF ~r.ok /\ IsAt(actions, i, t) THEN {i} ELSE {}

Install(self) ==
    /\ actions' = self.actions
    /\ written' = self.written
    /\ action' = self.action
    /\ pos' = self.pos
    /\ sleep' = self.sleep

replayVars == <<pass, trace, replayed, written1>>

pollVars == <<polled, req>>

twinVars == <<twin, twinout, phase>>

----------------------------------------------------------------------------
(* The calls, over given sets of arguments *)

\* CheckedMockStreamBuilder::build / build_cap on a script of the set
Build(scripts) ==
    /\ actions \in scripts
    /\ written = <<>>
    /\ action = 0
    /\ pos = 0
    /\ last = NoCall
    /\ surfaced = {}
    /\ delivered = <<>>
    /\ pass = 1
    /\ trace = <<>>
    /\ replayed = <<>>
    /\ written1 = <<>>
    /\ sleep = NoSleep
    /\ polled = NoPoll
    /\ req = NoReq
    /\ twin = build(actions)
    /\ twinout = NoOut
    /\ phase = 1

DoRead(sizes) ==
    \E len \in sizes :
        LET r == read(Self, len, 0) IN
        /\ Install(r.self)
        /\ last' = Call("read", len, <<>>, 0, r)
        /\ surfaced' = surfaced \cup Surfacing("ReadError", r)
        /\ UNCHANGED <<delivered, replayVars, pollVars, twinVars>>

DoWrite(bufs, cap) ==
    \E buf \in bufs :
        LET r == write(Self, buf, 0) IN
        /\ Len(r.self.written) <= cap
        /\ Install(r.self)
        /\ last' = Call("write", 0, buf, 0, r)
        /\ surfaced' = surfaced \cup Surfacing("WriteError", r)
        /\ UNCHANGED <<delivered, replayVars, pollVars, twinVars>>

DoFlush ==
    LET r == flush(Self) IN
    /\ Install(r.self)
    /\ last' = Call("flush", 0, <<>>, 0, r)
    /\ UNCHANGED <<surfaced, delivered, replayVars, pollVars, twinVars>>

DoReset ==
    /\ Install(reset(Self))
    /\ last' = Call("reset", 0, <<>>, 0, Unit)
    /\ surfaced' = {}
    /\ UNCHANGED <<delivered, replayVars, pollVars, twinVars>>

DoResetActions ==
    /\ Install(reset_actions(Self))
    /\ last' = Call("reset_actions", 0, <<>>, 0, Unit)
    /\ surfaced' = {}
    /\ UNCHANGED <<delivered, replayVars, pollVars, twinVars>>

DoResetWritten ==
    /\ Install(reset_written(Self))
    /\ last' = Call("reset_written", 0, <<>>, 0, Unit)
    /\ UNCHANGED <<surfaced, delivered, replayVars, pollVars, twinVars>>

\* seek_action(k) for every index of the script, its end and one index beyond it
DoSeekAction ==
    \E k \in 0..(Len(actions) + 1) :
        /\ Install(seek_action(Self, k))
        /\ last' = Call("seek_action", 0, <<>>, k, Unit)
        /\ surfaced' = {i \in surfaced : i < k}
        /\ UNCHANGED <<delivered, replayVars, pollVars, twinVars>>

\* what the last poll found in self.sleep, did about the timer and left in self.sleep;
\* by: the call that stored the last timer; at: the index of the Wait it was stored
\* for; was: the value of at when the poll began
Poll(op, r) ==
    [ready |-> r.ready, armed |-> r.armed, woke |-> r.woke, sleep |-> sleep,
     after |-> r.self.sleep, by |-> IF r.armed THEN op ELSE polled.by,
     at |-> IF r.armed THEN r.self.action - 1 ELSE polled.at, was |-> polled.at]

DoPollRead(sizes) ==
    \E len \in sizes :
        LET r == poll_read(Self, len) IN
        /\ Install(r.self)
        /\ last' = Call("poll_read", len, <<>>, 0, r)
        /\ polled' = Poll("poll_read", r)

DoPollWrite(bufs, cap) ==
    \E buf \in bufs :
        LET r == poll_write(Self, buf) IN
        /\ Len(r.self.written) <= cap
        /\ Install(r.self)
        /\ last' = Call("poll_write", 0, buf, 0, r)
        /\ polled' = Poll("poll_write", r)

\* time passes while a timer is pending
DoTick ==
    /\ sleep_pending(Self)
    /\ Install(tick(Self))

----------------------------------------------------------------------------
(* Spec: every call of the blocking interface, in any order, on every generated script *)

Init == Build(Scripts)

Read == DoRead(ReadSizes)

Write == DoWrite(WriteBufs, MaxWritten)

Flush == DoFlush

Reset == DoReset

ResetActions == DoResetActions

ResetWritten == DoResetWritten

SeekAction == DoSeekAction

Next == Read \/ Write \/ Flush \/ Reset \/ ResetActions \/ ResetWritten \/ SeekAction

Spec == Init /\ [][Next]_vars

----------------------------------------------------------------------------
(* SpecTests: the same calls on the scripts of the tests and of the documented           *)
(* scenarios, with their buffers; written is capped at the capacity build_cap            *)
(* preallocates for the script                                                            *)

InitTests == Build(TestScripts)

TestRead == DoRead(TestReadSizes)

TestWrite == DoWrite(TestWriteBufs, writed(actions))

NextTests ==
    TestRead \/ TestWrite \/ Flush \/ Reset \/ ResetActions \/ ResetWritten \/ SeekAction

SpecTests == InitTests /\ [][NextTests]_vars

----------------------------------------------------------------------------
(* SpecRead: successive reads into non-empty buffers on a script of Read and Wait        *)
(* actions; delivered collects what the calls returned                                   *)

InitRead == Build(ReadScripts)

ReadChunk ==
    \E len \in ReadSizes \ {0} :
        LET r == read(Self, len, 0) IN
        /\ Install(r.self)
        /\ last' = Call("read", len, <<>>, 0, r)
        /\ delivered' = delivered \o r.data
        /\ UNCHANGED <<surfaced, replayVars, pollVars, twinVars>>

NextRead == ReadChunk

SpecRead == InitRead /\ [][NextRead]_vars

----------------------------------------------------------------------------
(* SpecReplay: up to MaxCalls read / write calls on a freshly built stream, then         *)
(* reset_actions() and the same calls again                                              *)

InitReplay == Build(Scripts)

FirstPassRead ==
    /\ pass = 1
    /\ Len(trace) < MaxCalls
    /\ \E len \in ReplayReadSizes :
        LET r == read(Self, len, 0) IN
        /\ Install(r.self)
        /\ last' = Call("read", len, <<>>, 0, r)
        /\ trace' = Append(trace, [op |-> "read", len |-> len, buf |-> <<>>, out |-> Outcome(r)])
        /\ UNCHANGED <<surfaced, delivered, pass, replayed, written1, pollVars, twinVars>>

FirstPassWrite ==
    /\ pass = 1
    /\ Len(trace) < MaxCalls
    /\ \E buf \in ReplayWriteBufs :
        LET r == write(Self, buf, 0) IN
        /\ Install(r.self)
        /\ last' = Call("write", 0, buf, 0, r)
        /\ trace' = Append(trace, [op |-> "write", len |-> 0, buf |-> buf, out |-> Outcome(r)])
        /\ UNCHANGED <<surfaced, delivered, pass, replayed, written1, pollVars, twinVars>>

StartReplay ==
    /\ pass = 1
    /\ Install(reset_actions(Self))
    /\ last' = Call("reset_actions", 0, <<>>, 0, Unit)
    /\ pass' = 2
    /\ written1' = written
    /\ UNCHANGED <<surfaced, delivered, trace, replayed, pollVars, twinVars>>

SecondPass ==
    /\ pass = 2
    /\ Len(replayed) < Len(trace)
    /\ LET c == trace[Len(replayed) + 1]
           r == IF c.op = "read" THEN read(Self, c.len, 0) ELSE write(Self, c.buf, 0)
       IN  /\ Install(r.self)
           /\ last' = Call(c.op, c.len, c.buf, 0, r)
           /\ replayed' = Append(replayed, Outcome(r))
           /\ UNCHANGED <<surfaced, delivered, pass, trace, written1, pollVars, twinVars>>

NextReplay == FirstPassRead \/ FirstPassWrite \/ StartReplay \/ SecondPass

SpecReplay == InitReplay /\ [][NextReplay]_vars

----------------------------------------------------------------------------
(* SpecSeek: any blocking calls and cursor moves, then seek_action(k) followed by        *)
(* reset_written(); from then on every read / write is given both to the stream and to   *)
(* twin, a stream freshly built from the actions [k..] only                              *)

\* the actions [k..] of a script: none if k is out of range
ActionsFrom(acts, k) == SubSeq(acts, k + 1, Len(acts))

\* what a call on the second stream returned
Out(ready, r) ==
    [ready |-> ready, ok |-> r.ok, n |-> r.n, err |-> r.err, data |-> r.data, slept |-> r.slept]

InitSeek == Build(SeekScripts)

BeforeSeekRead == phase = 1 /\ DoRead(SeekReadSizes)

BeforeSeekWrite == phase = 1 /\ DoWrite(SeekWriteBufs, MaxWritten)

BeforeSeekSeekAction == phase = 1 /\ DoSeekAction

SeekAndResetWritten ==
    /\ phase = 1
    /\ \E k \in 0..(Len(actions) + 1) :
        /\ Install(reset_written(seek_action(Self, k)))
        /\ last' = Call("seek_action", 0, <<>>, k, Unit)
        /\ twin' = build(ActionsFrom(actions, k))
    /\ phase' = 2
    /\ UNCHANGED <<surfaced, delivered, replayVars, pollVars, twinout>>

AfterSeekRead ==
    /\ phase = 2
    /\ \E len \in SeekReadSizes :
        LET r == read(Self, len, 0)
            t == read(twin, len, 0)
        IN  /\ Install(r.self)
            /\ last' = Call("read", len, <<>>, 0, r)
            /\ twin' = t.self
            /\ twinout' = Out(TRUE, t)
    /\ UNCHANGED <<surfaced, delivered, replayVars, pollVars, phase>>

AfterSeekWrite ==
    /\ phase = 2
    /\ \E buf \in SeekWriteBufs :
        LET r == write(Self, buf, 0)
            t == write(twin, buf, 0)
        IN  /\ Install(r.self)
            /\ last' = Call("write", 0, buf, 0, r)
            /\ twin' = t.self
            /\ twinout' = Out(TRUE, t)
    /\ UNCHANGED <<surfaced, delivered, replayVars, pollVars, phase>>

NextSeek ==
    \/ BeforeSeekRead \/ BeforeSeekWrite \/ BeforeSeekSeekAction
    \/ SeekAndResetWritten \/ AfterSeekRead \/ AfterSeekWrite

SpecSeek == InitSeek /\ [][NextSeek]_vars

----------------------------------------------------------------------------
(* SpecPoll: poll_read / poll_write in any order, not necessarily re-polled to           *)
(* completion, with time passing in between and the cursor moved by the control calls    *)

InitPoll == Build(PollScripts)

PollRead ==
    /\ DoPollRead(SeekReadSizes)
    /\ UNCHANGED <<surfaced, delivered, replayVars, req, twinVars>>

PollWrite ==
    /\ DoPollWrite(SeekWriteBufs, MaxWritten)
    /\ UNCHANGED <<surfaced, delivered, replayVars, req, twinVars>>

PollTick ==
    /\ DoTick
    /\ UNCHANGED <<last, surfaced, delivered, replayVars, pollVars, twinVars>>

NextPoll == PollRead \/ PollWrite \/ PollTick \/ SeekAction \/ ResetWritten

SpecPoll == InitPoll /\ [][NextPoll]_vars

----------------------------------------------------------------------------
(* SpecModes: two streams built from the same script are given the same requests. The    *)
(* first is driven through poll_read / poll_write: a request is polled, with time        *)
(* passing, until it returns Ready, and only then the next request is made. The second,  *)
(* twin, is given the request as one blocking read / write call.                         *)

\* the request made by its first poll, whose result is r: arms counts the polls of the
\* request that stored a timer, waits the consecutive Waits at the cursor when it began
Request(op, len, buf, r) ==
    [op |-> op, len |-> len, buf |-> buf, open |-> ~r.ready,
     arms |-> IF r.armed THEN 1 ELSE 0,
     waits |-> SkipWaits(actions, action) - action, from |-> action]

InitModes == Build(ModeScripts)

RequestRead ==
    /\ ~req.open
    /\ \E len \in SeekReadSizes :
        LET r == poll_read(Self, len)
            t == read(twin, len, 0)
        IN  /\ Install(r.self)
            /\ last' = Call("poll_read", len, <<>>, 0, r)
            /\ polled' = Poll("poll_read", r)
            /\ req' = Request("poll_read", len, <<>>, r)
            /\ twin' = t.self
            /\ twinout' = Out(TRUE, t)
    /\ UNCHANGED <<surfaced, delivered, replayVars, phase>>

RequestWrite ==
    /\ ~req.open
    /\ \E buf \in SeekWriteBufs :
        LET r == poll_write(Self, buf)
            t == write(twin, buf, 0)
        IN  /\ Install(r.self)
            /\ last' = Call("poll_write", 0, buf, 0, r)
            /\ polled' = Poll("poll_write", r)
            /\ req' = Request("poll_write", 0, buf, r)
            /\ twin' = t.self
            /\ twinout' = Out(TRUE, t)
    /\ UNCHANGED <<surfaced, delivered, replayVars, phase>>

\* the caller polls the open request again, with the same buffer
RePoll ==
    /\ req.open
    /\ LET r == IF req.op = "poll_read" THEN poll_read(Self, req.len)
                ELSE poll_write(Self, req.buf)
       IN  /\ Install(r.self)
           /\ last' = Call(req.op, req.len, req.buf, 0, r)
           /\ polled' = Poll(req.op, r)
           /\ req' = [req EXCEPT !.open = ~r.ready,
                                 !.arms = IF r.armed THEN @ + 1 ELSE @]
    /\ UNCHANGED <<surfaced, delivered, replayVars, twinVars>>

ModeTick ==
    /\ DoTick
    /\ UNCHANGED <<last, surfaced, delivered, replayVars, pollVars, twinVars>>

NextModes == RequestRead \/ RequestWrite \/ RePoll \/ ModeTick

SpecModes == InitModes /\ [][NextModes]_vars

\* SpecModesLive: the same, where every stored timer expires in the end and the caller
\* polls again after each Pending (the Wait arm wakes the task itself, the timer wakes
\* it at the deadline)
SpecModesLive == SpecModes /\ WF_vars(ModeTick) /\ WF_vars(RePoll)

----------------------------------------------------------------------------
(* SpecSeekPoll: polls and time steps, then seek_action(k) followed by reset_written(),  *)
(* or reset(); from then on every poll_read / poll_write is given both to the stream     *)
(* and to twin, a stream freshly built from the actions [k..] only, and time passes      *)
(* for both                                                                              *)

\* what a poll on the second stream returned
PollOut(r) ==
    [ready |-> r.ready, ok |-> r.ok, n |-> r.n, err |-> r.err, data |-> r.data, slept |-> 0]

InitSeekPoll == Build(PollScripts)

BeforeSeekPollRead ==
    /\ phase = 1
    /\ DoPollRead(SeekReadSizes)
    /\ UNCHANGED <<surfaced, delivered, replayVars, req, twinVars>>

BeforeSeekPollWrite ==
    /\ phase = 1
    /\ DoPollWrite(SeekWriteBufs, MaxWritten)
    /\ UNCHANGED <<surfaced, delivered, replayVars, req, twinVars>>

SeekPollTick ==
    /\ sleep_pending(Self) \/ sleep_pending(twin)
    /\ Install(tick(Self))
    /\ twin' = tick(twin)
    /\ UNCHANGED <<last, surfaced, delivered, replayVars, pollVars, twinout, phase>>

SeekAndResetWrittenPoll ==
    /\ phase = 1
    /\ \E k \in 0..(Len(actions) + 1) :
        /\ Install(reset_written(seek_action(Self, k)))
        /\ last' = Call("seek_action", 0, <<>>, k, Unit)
        /\ twin' = build(ActionsFrom(actions, k))
    /\ phase' = 2
    /\ UNCHANGED <<surfaced, delivered, replayVars, pollVars, twinout>>

ResetPoll ==
    /\ phase = 1
    /\ Install(reset(Self))
    /\ last' = Call("reset", 0, <<>>, 0, Unit)
    /\ twin' = build(ActionsFrom(actions, 0))
    /\ phase' = 2
    /\ UNCHANGED <<surfaced, delivered, replayVars, pollVars, twinout>>

AfterSeekPollRead ==
    /\ phase = 2
    /\ \E len \in SeekReadSizes :
        LET r == poll_read(Self, len)
            t == poll_read(twin, len)
        IN  /\ Install(r.self)
            /\ last' = Call("poll_read", len, <<>>, 0, r)
            /\ polled' = Poll("poll_read", r)
            /\ twin' = t.self
            /\ twinout' = PollOut(t)
    /\ UNCHANGED <<surfaced, delivered, replayVars, req, phase>>

AfterSeekPollWrite ==
    /\ phase = 2
    /\ \E buf \in SeekWriteBufs :
        LET r == poll_write(Self, buf)
            t == poll_write(twin, buf)
        IN  /\ Install(r.self)
            /\ last' = Call("poll_write", 0, buf, 0, r)
            /\ polled' = Poll("poll_write", r)
            /\ twin' = t.self
            /\ twinout' = PollOut(t)
    /\ UNCHANGED <<surfaced, delivered, replayVars, req, phase>>

NextSeekPoll ==
    \/ BeforeSeekPollRead \/ BeforeSeekPollWrite \/ SeekPollTick
    \/ SeekAndResetWrittenPoll \/ ResetPoll
    \/ AfterSeekPollRead \/ AfterSeekPollWrite

SpecSeekPoll == InitSeekPoll /\ [][NextSeekPoll]_vars

----------------------------------------------------------------------------
(* SpecFresh: read, write and flush calls on a freshly built stream, with no reset,      *)
(* reset_actions, reset_written or seek_action                                           *)

\* more bytes than the writes of one script can log: a whole buffer for every action
FreshCap == MaxActions * (MaxPayload + 1)

InitFresh == Build(Scripts)

FreshRead == DoRead(ReadSizes)

FreshWrite == DoWrite(WriteBufs, FreshCap)

NextFresh == FreshRead \/ FreshWrite \/ Flush

SpecFresh == InitFresh /\ [][NextFresh]_vars

----------------------------------------------------------------------------
(* Vocabulary of the properties *)

\* p is a leading part of s (possibly all of it)
IsPrefixOf(p, s) == Len(p) <= Len(s) /\ \A i \in 1..Len(p) : p[i] = s[i]

\* the n bytes of s that follow its first from bytes
Slice(s, from, n) == [i \in 1..n |-> s[from + i]]

\* the action that was current when the last call started, and its payload
PreIs(t) == IsAt(actions, last.pre.action, t)
PreData == actions[last.pre.action + 1].data
PreErr == actions[last.pre.action + 1].err

\* the last call was a read / write given a non-empty buffer
ReadCalled == last.op = "read" /\ last.len > 0
WriteCalled == last.op = "write" /\ last.buf # <<>>

\* the last call left action, pos and written as they were
Untouched == action = last.pre.action /\ pos = last.pre.pos /\ written = last.pre.written

\* the last call returned Ok(0)
ReturnedZero == last.ok /\ last.n = 0 /\ last.err = NoError /\ last.data = <<>>

\* the payloads of the Read actions of a script, in script order
RECURSIVE ReadPayload(_)
ReadPayload(acts) ==
    IF acts = <<>> THEN <<>>
    ELSE (IF Head(acts).type = "Read" THEN Head(acts).data ELSE <<>>) \o ReadPayload(Tail(acts))

----------------------------------------------------------------------------
(* C1 *)

\* C1 (as stated): in every reachable state, whatever index seek_action was passed,
\* the cursor action is in [0, actions.len()].
C1_ActionInRange == action \in 0..Len(actions)

\* C1 (amended): seek_action(k) sets action to k whatever k is; every other call
\* (read, write, flush, reset, reset_actions, reset_written) that starts with the
\* cursor in [0, actions.len()] leaves it in that range.
C1_ActionInRangeUnlessSought ==
    /\ action \in Nat
    /\ last.op = "seek_action" => action = last.k
    /\ (last.op # "seek_action" /\ last.pre.action <= Len(actions)) => action <= Len(actions)

\* a read or write moved the cursor onto the end of a non-empty script
C1_Witness ==
    /\ last.op \in {"read", "write"}
    /\ last.pre.action < Len(actions)
    /\ action = Len(actions)

----------------------------------------------------------------------------
(* C2 *)

\* C2: on a script of Read and Wait actions read through non-empty buffers, once the
\* script is exhausted the bytes the calls returned, in call order, are the Read
\* payloads in script order; and one call returns bytes of one Read action only: the
\* next len(data) bytes of the first action after the Waits at the cursor.
C2_ChunkingInvariance ==
    /\ action >= Len(actions) => delivered = ReadPayload(actions)
    /\ last.op = "read" =>
         LET i == SkipWaits(actions, last.pre.action) IN
         /\ last.ok
         /\ last.n = Len(last.data)
         /\ IF IsAt(actions, i, "Read")
              THEN /\ last.n <= Len(actions[i + 1].data) - last.pre.pos
                   /\ last.data = Slice(actions[i + 1].data, last.pre.pos, last.n)
              ELSE last.n = 0

\* a script with a Wait was read to its end, its last payload in more than one call
C2_Witness ==
    /\ action >= Len(actions)
    /\ Len(delivered) >= 3
    /\ last.pre.pos > 0
    /\ \E i \in 1..Len(actions) : actions[i].type = "Wait"

----------------------------------------------------------------------------
(* C3 *)

\* C3: a write of a non-empty buf on a current Write(expected), where expected is buf
\* or a shorter leading part of buf, returns Ok(len(expected)), appends exactly those
\* len(expected) bytes to written and advances action by exactly 1.
C3_WriteMatch ==
    (WriteCalled /\ PreIs("Write") /\ IsPrefixOf(PreData, last.buf)) =>
        /\ last.ok
        /\ last.n = Len(PreData)
        /\ written = last.pre.written \o Slice(last.buf, 0, Len(PreData))
        /\ action = last.pre.action + 1

\* a write was accepted whose buffer is longer than the non-empty expectation
C3_Witness ==
    /\ WriteCalled /\ PreIs("Write")
    /\ IsPrefixOf(PreData, last.buf)
    /\ 0 < Len(PreData) /\ Len(PreData) < Len(last.buf)
    /\ written # <<>>

----------------------------------------------------------------------------
(* C4 *)

\* the call c was a write of a non-empty buffer that neither is nor starts with the
\* bytes the then current Write action expects
C4_Mismatched(c) ==
    /\ c.op = "write" /\ c.buf # <<>>
    /\ IsAt(actions, c.pre.action, "Write")
    /\ ~IsPrefixOf(actions[c.pre.action + 1].data, c.buf)

C4_Refused == C4_Mismatched(last) => (~last.ok /\ last.err = Mismatch /\ last.n = 0 /\ Untouched)

\* C4: a mismatching write fails with InvalidInput and leaves written, action and pos
\* unchanged, and a write that follows it with bytes that match the same expectation
\* is accepted: it returns len(expected), appends expected and advances.
C4_MismatchLeavesStateUnchanged ==
    [][/\ C4_Refused'
       /\ (/\ C4_Mismatched(last)
           /\ last'.op = "write" /\ last'.buf # <<>>
           /\ IsPrefixOf(PreData, last'.buf))
          => (/\ last'.ok
              /\ last'.n = Len(PreData)
              /\ written' = written \o PreData
              /\ action' = action + 1)]_vars

\* script write(b"AB"): the write of b"A" failed and written is empty
C4_Witness ==
    /\ actions = ScriptAB
    /\ last.op = "write" /\ last.buf = Word(1)
    /\ ~last.ok /\ last.err = Mismatch
    /\ written = <<>> /\ action = 0

----------------------------------------------------------------------------
(* C5 *)

\* C5 (as stated, of the writes given a non-empty buffer): on a Write(expected), the
\* expected bytes are accepted whole and the cursor advances; a strict prefix of them is
\* accepted at its own length and the cursor stays; non-matching bytes yield a mismatch
\* error and leave written unchanged.
C5_WriteCases ==
    (WriteCalled /\ PreIs("Write")) =>
        /\ last.buf = PreData =>
             (last.ok /\ last.n = Len(last.buf) /\ action = last.pre.action + 1)
        /\ (IsPrefixOf(last.buf, PreData) /\ last.buf # PreData) =>
             (last.ok /\ last.n = Len(last.buf) /\ action = last.pre.action)
        /\ (~IsPrefixOf(last.buf, PreData) /\ ~IsPrefixOf(PreData, last.buf)) =>
             (~last.ok /\ last.err = Mismatch /\ written = last.pre.written)

\* C5 (amended): on a Write(expected), a non-empty buffer that equals expected is
\* accepted whole and the cursor advances; a non-empty strict prefix of expected is a
\* mismatch: InvalidInput, nothing accepted, cursor and written unchanged (an empty
\* buffer returns Ok(0) and changes nothing); non-matching bytes yield a mismatch error
\* and leave written unchanged.
C5_WriteCasesAmended ==
    (last.op = "write" /\ PreIs("Write")) =>
        /\ (last.buf = PreData /\ last.buf # <<>>) =>
             (last.ok /\ last.n = Len(last.buf) /\ action = last.pre.action + 1)
        /\ (IsPrefixOf(last.buf, PreData) /\ last.buf # PreData /\ last.buf # <<>>) =>
             (~last.ok /\ last.err = Mismatch /\ last.n = 0 /\ Untouched)
        /\ last.buf = <<>> => (ReturnedZero /\ Untouched)
        /\ (~IsPrefixOf(last.buf, PreData) /\ ~IsPrefixOf(PreData, last.buf)) =>
             (~last.ok /\ last.err = Mismatch /\ written = last.pre.written)

\* a non-empty strict prefix of the expected bytes was written and refused
C5_Witness ==
    /\ WriteCalled /\ PreIs("Write")
    /\ IsPrefixOf(last.buf, PreData) /\ last.buf # PreData
    /\ ~last.ok

----------------------------------------------------------------------------
(* C6 *)

\* the three calls of the scenario read(b"Hi\n"), write(b"Ack\n"), each from the state
\* the one before leaves; accepted is what the first write of b"Ack\n" reports
C6_Steps(accepted) ==
    actions = ScriptHiAck =>
        /\ (last.op = "read" /\ last.len = 10
              /\ last.pre = [action |-> 0, pos |-> 0, written |-> <<>>]) =>
             (last.ok /\ last.n = 3 /\ last.data = BytesHi /\ action = 1 /\ pos = 0)
        /\ (last.op = "write" /\ last.buf = BytesAck
              /\ last.pre = [action |-> 1, pos |-> 0, written |-> <<>>]) =>
             (last.ok /\ last.n = accepted /\ written = BytesAck /\ action = 2)
        /\ (last.op = "write" /\ last.buf = BytesAck
              /\ last.pre = [action |-> 2, pos |-> 0, written |-> BytesAck]) =>
             (ReturnedZero /\ written = BytesAck)

\* C6 (as stated): the read into a 10-byte buffer returns the 3 bytes b"Hi\n"; the
\* write of b"Ack\n" yields 3 accepted and written() == b"Ack\n"; a second write of
\* b"Ack\n" yields 0 accepted with no error.
C6_Scenario == C6_Steps(3)

\* C6 (amended): as stated, but the write of the 4 bytes b"Ack\n" yields 4 accepted.
C6_ScenarioAmended == C6_Steps(4)

\* the second write of b"Ack\n" has returned
C6_Witness ==
    /\ actions = ScriptHiAck
    /\ last.op = "write" /\ last.buf = BytesAck
    /\ last.pre = [action |-> 2, pos |-> 0, written |-> BytesAck]

----------------------------------------------------------------------------
(* C7 *)

\* C7: a read or write that finds action >= actions.len(), or is given an empty buffer,
\* returns Ok(0) and leaves action, pos and written unchanged.
C7_EndOfScriptIsOk ==
    /\ (last.op = "read" /\ (last.pre.action >= Len(actions) \/ last.len = 0)) =>
         (ReturnedZero /\ Untouched)
    /\ (last.op = "write" /\ (last.pre.action >= Len(actions) \/ last.buf = <<>>)) =>
         (ReturnedZero /\ Untouched)

\* a call with a non-empty buffer found the cursor beyond the end of a non-empty script
C7_Witness ==
    /\ ReadCalled \/ WriteCalled
    /\ Len(actions) > 0
    /\ last.pre.action > Len(actions)

----------------------------------------------------------------------------
(* C8 *)

\* what a call that surfaced the scripted error of the current action must have done
C8_Surfaced ==
    /\ ~last.ok /\ last.n = 0
    /\ last.err = PreErr
    /\ action = last.pre.action + 1
    /\ pos = 0
    /\ written = last.pre.written

\* C8 (as stated): every read whose current action is ReadError, and every write whose
\* current action is WriteError, fails with the embedded error, advances action by 1
\* and leaves pos at 0 and written unchanged; no error is surfaced twice unless the
\* cursor was moved back over it.
C8_ErrorsOncePerPass ==
    /\ (last.op = "read" /\ PreIs("ReadError")) => C8_Surfaced
    /\ (last.op = "write" /\ PreIs("WriteError")) => C8_Surfaced
    /\ \A i \in surfaced : i < action

\* C8 (amended): the same for every read and write that is given a non-empty buffer
\* (with an empty buffer the call returns Ok(0) and the error stays current).
C8_ErrorsOncePerPassAmended ==
    /\ (ReadCalled /\ PreIs("ReadError")) => C8_Surfaced
    /\ (WriteCalled /\ PreIs("WriteError")) => C8_Surfaced
    /\ \A i \in surfaced : i < action

\* a read has just surfaced a ReadError after a write surfaced a WriteError
C8_Witness ==
    /\ ReadCalled /\ PreIs("ReadError") /\ ~last.ok
    /\ Cardinality(surfaced) >= 2

----------------------------------------------------------------------------
(* C9 *)

\* C9: a read whose current action is Write or WriteError, and a write whose current
\* action is Read or ReadError (a partially delivered Read included), returns Ok(0)
\* and leaves action, pos and written unchanged.
C9_DirectionGuard ==
    /\ (last.op = "read" /\ (PreIs("Write") \/ PreIs("WriteError"))) =>
         (ReturnedZero /\ Untouched)
    /\ (last.op = "write" /\ (PreIs("Read") \/ PreIs("ReadError"))) =>
         (ReturnedZero /\ Untouched)

\* a non-empty write met a partially delivered Read
C9_Witness == WriteCalled /\ PreIs("Read") /\ last.pre.pos > 0

----------------------------------------------------------------------------
(* C10 *)

\* the bytes the first k calls of the second pass accepted
RECURSIVE Accepted(_)
Accepted(k) ==
    IF k = 0 THEN <<>>
    ELSE Accepted(k - 1)
         \o (IF trace[k].op = "write" /\ replayed[k].ok
               THEN Slice(trace[k].buf, 0, replayed[k].n) ELSE <<>>)

\* C10: after reset_actions() the calls of the first pass, reissued, return what they
\* returned in the first pass (counts, bytes, errors), and written is the first pass's
\* written followed by the bytes accepted in the second pass.
C10_Replay ==
    pass = 2 =>
        /\ \A i \in 1..Len(replayed) : replayed[i] = trace[i].out
        /\ written = written1 \o Accepted(Len(replayed))

\* both passes are complete; the first delivered bytes and accepted bytes
C10_Witness ==
    /\ pass = 2
    /\ Len(trace) = MaxCalls /\ Len(replayed) = MaxCalls
    /\ written1 # <<>> /\ Len(written) = 2 * Len(written1)
    /\ \E i \in 1..Len(trace) : trace[i].op = "read" /\ trace[i].out.n > 0

----------------------------------------------------------------------------
(* C11 *)

\* C11: after seek_action(k) followed by reset_written(), from any reachable state, every
\* blocking read / write returns what the same call returns on a stream freshly built
\* from the actions [k..] only (an empty script if k is out of range), to which the
\* same calls were made, and written has the same contents on both.
C11_SeekEquivalence ==
    phase = 2 =>
        /\ last.op \in {"read", "write"} =>
              Out(TRUE, last) = twinout
        /\ written = twin.written
        /\ pos = twin.pos
        /\ action - twin.action = Len(actions) - Len(twin.actions) \/ twin.actions = <<>>

\* the seek went to an action inside the script; since then a write was accepted and a
\* read has just delivered bytes
C11_Witness ==
    /\ phase = 2
    /\ 0 < Len(twin.actions) /\ Len(twin.actions) < Len(actions)
    /\ written # <<>>
    /\ last.op = "read" /\ last.n > 0

----------------------------------------------------------------------------
(* C12 *)

\* C12: seek_action(k) sets action to k and pos to 0 and leaves written unchanged;
\* reset_actions() sets action and pos to 0 and leaves written unchanged;
\* reset_written() empties written and leaves action and pos unchanged; reset() does
\* both; flush succeeds and changes none of action, pos, written.
C12_ControlFrame ==
    /\ last.op = "seek_action" =>
          (action = last.k /\ pos = 0 /\ written = last.pre.written)
    /\ last.op = "reset_actions" =>
          (action = 0 /\ pos = 0 /\ written = last.pre.written)
    /\ last.op = "reset_written" =>
          (written = <<>> /\ action = last.pre.action /\ pos = last.pre.pos)
    /\ last.op = "reset" => (action = 0 /\ pos = 0 /\ written = <<>>)
    /\ last.op = "flush" => (last.ok /\ last.err = NoError /\ Untouched)

\* reset_written() was called on a stream with bytes written and a Read partially delivered
C12_Witness ==
    /\ last.op = "reset_written"
    /\ last.pre.written # <<>>
    /\ last.pre.action > 0 /\ last.pre.pos > 0

----------------------------------------------------------------------------
(* C13 *)

\* C13: across read, write, flush, seek_action and reset_actions the previous contents
\* of written are a prefix of the new contents; written grows only in a write call that
\* succeeds against a Write action (the first action after the Waits at the cursor), by
\* that action's bytes; and it shrinks only in reset_written, called directly or by
\* reset(), to empty.
C13_AppendOnly ==
    /\ last.op \in {"read", "write", "flush", "seek_action", "reset_actions"} =>
          IsPrefixOf(last.pre.written, written)
    /\ Len(written) > Len(last.pre.written) =>
          LET i == SkipWaits(actions, last.pre.action) IN
          /\ last.op = "write" /\ last.ok /\ last.n > 0
          /\ IsAt(actions, i, "Write")
          /\ written = last.pre.written \o actions[i + 1].data
    /\ Len(written) < Len(last.pre.written) =>
          (last.op \in {"reset_written", "reset"} /\ written = <<>>)
    /\ Len(written) = Len(last.pre.written) => written = last.pre.written

\* a write that passed a Wait added bytes to a log that already held some
C13_Witness ==
    /\ last.op = "write" /\ last.ok /\ last.n > 0
    /\ last.slept > 0
    /\ last.pre.written # <<>>
    /\ Len(written) > Len(last.pre.written)

----------------------------------------------------------------------------
(* C14 *)

\* C14: a blocking read or write given a non-empty buffer passes every consecutive Wait
\* at the cursor, advancing action by 1 for each, and returns exactly what the same call
\* returns when the cursor is already on the first action after those Waits (or on the
\* end of the script), leaving the stream in the same state; the time it sleeps is the
\* sum of the durations of the Waits it passed, which is none if it passed no Wait.
C14_WaitPassThrough ==
    (ReadCalled \/ WriteCalled) =>
        LET i == SkipWaits(actions, last.pre.action)
            s == [actions |-> actions, written |-> last.pre.written, action |-> i,
                  pos |-> last.pre.pos, sleep |-> sleep]
            r == IF last.op = "read" THEN read(s, last.len, 0) ELSE write(s, last.buf, 0)
        IN  /\ last.slept = WaitSum(actions, last.pre.action, i)
            /\ i = last.pre.action => last.slept = 0
            /\ action >= i
            /\ Outcome(last) = Outcome(r)
            /\ Self = r.self

\* a read passed two Waits of different durations
C14_Witness ==
    /\ ReadCalled
    /\ PreIs("Wait")
    /\ SkipWaits(actions, last.pre.action) = last.pre.action + 2
    /\ actions[last.pre.action + 1].wait # actions[last.pre.action + 2].wait
    /\ last.slept > 0

----------------------------------------------------------------------------
(* C15 *)

\* the last call was a poll_read / poll_write given a non-empty buffer
PollReadCalled == last.op = "poll_read" /\ last.len > 0
PollWriteCalled == last.op = "poll_write" /\ last.buf # <<>>

\* C15: a poll_read or poll_write given a non-empty buffer that finds no timer pending
\* (none stored, or one whose deadline has passed, which it clears) and a Wait(d)
\* current stores a timer with d left, advances action by exactly 1,
\* requests a re-wake and returns Pending; it transfers no bytes and leaves pos and
\* written unchanged. And a poll that moves the cursor past a Wait returns Pending.
C15_PollWait ==
    /\ ((PollReadCalled \/ PollWriteCalled) /\ PreIs("Wait")
          /\ ~(polled.sleep.armed /\ polled.sleep.left > 0)) =>
          /\ ~polled.ready
          /\ polled.armed /\ polled.after = Armed(actions[last.pre.action + 1].wait)
          /\ polled.after.left > 0
          /\ action = last.pre.action + 1
          /\ polled.woke
          /\ last.n = 0 /\ last.data = <<>>
          /\ pos = last.pre.pos /\ written = last.pre.written
    /\ (last.op \in {"poll_read", "poll_write"}
          /\ \E j \in last.pre.action..(action - 1) : IsAt(actions, j, "Wait")) =>
          (~polled.ready /\ action = last.pre.action + 1)

\* a poll_write that found no timer stored and a Wait(2) current after another action
C15_Witness ==
    /\ PollWriteCalled /\ PreIs("Wait")
    /\ ~polled.sleep.armed
    /\ last.pre.action > 0
    /\ sleep = Armed(2)

----------------------------------------------------------------------------
(* C16 *)

\* C16: a poll_read or poll_write that finds a timer stored whose deadline has not
\* passed, whichever of the two stored it, returns Pending and leaves action, pos,
\* written and the timer as they were; and a poll stores a timer only if it found none
\* stored or had just cleared an expired one, so a second timer is never scheduled
\* while one is pending.
C16_TimerGate ==
    /\ (last.op \in {"poll_read", "poll_write"}
          /\ polled.sleep.armed /\ polled.sleep.left > 0) =>
          /\ ~polled.ready
          /\ last.n = 0 /\ last.data = <<>>
          /\ Untouched
          /\ ~polled.armed /\ ~polled.woke
          /\ polled.after = polled.sleep
    /\ polled.armed => ~(polled.sleep.armed /\ polled.sleep.left > 0)

\* a poll_write with the bytes the current Write expects was held back by a timer that
\* a poll_read stored
C16_Witness ==
    /\ PollWriteCalled
    /\ polled.sleep.armed /\ polled.sleep.left > 0
    /\ polled.by = "poll_read"
    /\ ~polled.ready
    /\ IsAt(actions, action, "Write") /\ actions[action + 1].data = last.buf

----------------------------------------------------------------------------
(* C17 *)

\* the types of the actions a call of the given direction may move the cursor past
Consumes(op) ==
    IF op \in {"read", "poll_read"} THEN {"Read", "ReadError"} ELSE {"Write", "WriteError"}

\* C17: a read or write call never decreases action; the actions it moves the cursor
\* past are consecutive Waits followed by at most one action that is not a Wait; and
\* that action is of the call's own direction: a read passes no Write or WriteError, a
\* write no Read or ReadError.
C17_StrictOrdering ==
    last.op \in {"read", "write", "poll_read", "poll_write"} =>
        /\ action >= last.pre.action
        /\ action > last.pre.action => action <= Len(actions)
        /\ \A j \in last.pre.action..(action - 2) : IsAt(actions, j, "Wait")
        /\ \A j \in last.pre.action..(action - 1) :
              actions[j + 1].type \in Consumes(last.op) \cup {"Wait"}

\* a read passed a Wait and the Read after it, whose bytes it delivered
C17_Witness ==
    /\ ReadCalled
    /\ action = last.pre.action + 2
    /\ PreIs("Wait") /\ IsAt(actions, last.pre.action + 1, "Read")
    /\ last.n > 0

----------------------------------------------------------------------------
(* C18 *)

\* C18: on two streams freshly built from the same script and given the same sequence
\* of read / write requests, one through poll_read / poll_write re-polled until Ready
\* and one through blocking read / write, each Ready outcome (byte count, bytes, error)
\* is the outcome of the blocking call, and action, pos and written are then the same
\* on both.
C18_ModesAgree ==
    (req.op # "none" /\ ~req.open) =>
        /\ polled.ready
        /\ Outcome(last) = Outcome(twinout)
        /\ action = twin.action
        /\ pos = twin.pos
        /\ written = twin.written

\* a write request went through two timers and was then accepted on a prefix match
C18_Witness ==
    /\ req.op = "poll_write" /\ ~req.open
    /\ req.arms = 2
    /\ last.ok /\ 0 < last.n /\ last.n < Len(last.buf)
    /\ twinout.slept > 0

----------------------------------------------------------------------------
(* C19 *)

\* C19: after seek_action(k) followed by reset_written(), or after reset(), from any
\* reachable state, one with a timer still pending included, every poll_read /
\* poll_write returns what the same poll returns on a stream freshly built from the
\* actions [k..] only: Pending where that returns Pending, and the same Ready outcome.
C19_SeekEquivalencePoll ==
    (phase = 2 /\ last.op \in {"poll_read", "poll_write"}) =>
        /\ polled.ready = twinout.ready
        /\ Outcome(last) = Outcome(twinout)
        /\ written = twin.written

----------------------------------------------------------------------------
(* C20 *)

\* the number of Waits among the actions at the 0-based indices a .. b - 1
WaitsIn(a, b) == Cardinality({j \in a..(b - 1) : IsAt(actions, j, "Wait")})

\* within a request the polls that store a timer are at most as many as the consecutive
\* Waits at the cursor when it began, and so are the Waits the blocking call passes; a
\* poll that finds the timer expired clears it and goes on with the action that
\* follows the Wait the timer was stored for
C20_Bounded ==
    /\ req.arms <= req.waits
    /\ req.op # "none" => WaitsIn(req.from, twin.action) <= req.waits
    /\ (last.op \in {"poll_read", "poll_write"}
          /\ polled.sleep.armed /\ polled.sleep.left = 0) =>
          /\ last.pre.action = polled.was + 1
          /\ polled.ready \/ polled.armed
          /\ polled.armed \/ polled.after = NoSleep
          /\ polled.armed => IsAt(actions, last.pre.action, "Wait")

\* C20: if every stored timer expires in the end and the caller polls again after each
\* Pending, every poll_read / poll_write request returns Ready in the end; the poll
\* after the timer has expired goes on with the action following the Wait; and the
\* Pending polls of a request that store a timer, like the Waits a blocking call
\* passes, are at most as many as the consecutive Waits at the cursor.
C20_Progress == []C20_Bounded /\ (req.open ~> ~req.open)

\* a read request went through two timers and then delivered bytes
C20_Witness ==
    /\ req.op = "poll_read" /\ ~req.open
    /\ req.arms = 2 /\ req.waits = 2
    /\ last.ok /\ last.n > 0

----------------------------------------------------------------------------
(* C21 *)

\* pos is 0 unless the current action is a Read(bytes) that has been partially
\* delivered, and then 0 < pos < len(bytes)
C21_PosRange ==
    pos = 0 \/ (/\ IsAt(actions, action, "Read")
                /\ 0 < pos /\ pos < Len(actions[action + 1].data))

\* the last call was a read or write, blocking or polled, that advanced action
C21_Advanced ==
    last.op \in {"read", "write", "poll_read", "poll_write"} /\ action > last.pre.action

\* C21 (as stated): in every reachable state pos is 0, unless the current action is a
\* Read(bytes) that has been partially delivered, and then 0 < pos < len(bytes); in
\* particular pos is 0 after every call that advanced action (Read completion,
\* ReadError, WriteError, Write match, Wait).
C21_PosInvariant ==
    /\ C21_PosRange
    /\ C21_Advanced => pos = 0

\* C21 (amended): the same range of pos in every reachable state; pos is 0 after every
\* call that advanced action, except after a blocking read that passed only Waits and
\* went on, in the same call, to deliver the first part of the Read that follows
\* them: then pos is the number of bytes it returned.
C21_PosInvariantAmended ==
    /\ C21_PosRange
    /\ C21_Advanced =>
          \/ pos = 0
          \/ /\ last.op = "read"
             /\ last.pre.pos = 0
             /\ SkipWaits(actions, last.pre.action) = action
             /\ pos = last.n

\* a read that passed a Wait delivered the first part of a payload
C21_Witness ==
    /\ ReadCalled
    /\ last.slept > 0
    /\ last.pre.pos = 0 /\ pos > 0
    /\ last.n = pos

----------------------------------------------------------------------------
(* C22 *)

\* the payloads of the Write actions at the 0-based indices below k, in script order
RECURSIVE WritePayload(_, _)
WritePayload(acts, k) ==
    IF k = 0 THEN <<>>
    ELSE WritePayload(acts, k - 1)
         \o (IF acts[k].type = "Write" THEN acts[k].data ELSE <<>>)

\* C22: on a stream used from a fresh build with read, write and flush calls only,
\* written is the concatenation, in script order, of the payloads of the Write actions
\* with index below action; so its length never exceeds the builder's total of the
\* Write payload lengths, the capacity build_cap preallocates.
C22_WrittenLog ==
    /\ action <= Len(actions)
    /\ written = WritePayload(actions, action)
    /\ Len(written) <= writed(actions)

\* two Write actions of different payloads were both accepted, the second on a prefix
\* match, and written has reached the preallocated capacity
C22_Witness ==
    /\ Len(actions) = 2 /\ action = 2
    /\ actions[1].type = "Write" /\ actions[2].type = "Write"
    /\ actions[1].data # <<>> /\ actions[2].data # <<>>
    /\ actions[1].data # actions[2].data
    /\ WriteCalled /\ last.n < Len(last.buf)
    /\ Len(written) = writed(actions)

====
